---- MODULE Spec2Model ----
(***************************************************************************)
(* A model of tauri-dumper (src/main.rs): the Dumper session, its address  *)
(* translation, the heuristic descriptor scan, the descriptor validator    *)
(* and the emission loop of main.                                          *)
(*                                                                         *)
(* The mapped file is a sequence of bytes.  A u64 (and a usize: the tool   *)
(* is built for 64-bit targets, where `as usize` is the identity) is the   *)
(* tuple of its 8 bytes, least significant first, exactly as it lies in    *)
(* the file read by a little-endian host, so that 64-bit wraparound,       *)
(* saturation and masking are computed on the full width.                  *)
(*                                                                         *)
(* The object crate and the brotli codec are external: the first is the    *)
(* input of Dumper::new (format and section list), the second a function   *)
(* of the bytes it is given.  What the build decides (overflow checks,     *)
(* debug assertions) is chosen in the initial state.                       *)
(***************************************************************************)
EXTENDS Integers, Sequences, FiniteSets

\* ------------------------------------------------------------------------
\* Bounds of the model
\* ------------------------------------------------------------------------

\* Length of the mapped file, in 8-byte words.
FileWords == 14

\* ------------------------------------------------------------------------
\* 64-bit unsigned arithmetic on little-endian byte tuples
\* ------------------------------------------------------------------------

\* the number of values of a u8
Byte == 256

\* size_of::<u64>()
U64Bytes == 8

RECURSIVE Enc(_, _)
\* the k low bytes of the natural number n, least significant first
Enc(n, k) == IF k = 0 THEN <<>> ELSE <<n % Byte>> \o Enc(n \div Byte, k - 1)

\* a small natural number as a u64
U64(n) == Enc(n, U64Bytes)

\* u64::MAX
U64Max == [i \in 1..U64Bytes |-> Byte - 1]

RECURSIVE LtFrom(_, _, _)
\* a < b, deciding on the bytes i, i-1, ..., 1 (most significant first)
LtFrom(a, b, i) ==
    IF i = 0 THEN FALSE
    ELSE IF a[i] # b[i] THEN a[i] < b[i]
    ELSE LtFrom(a, b, i - 1)

Lt(a, b) == LtFrom(a, b, Len(a))
Le(a, b) == ~Lt(b, a)
Ge(a, b) == ~Lt(a, b)
Gt(a, b) == Lt(b, a)

RECURSIVE AddFrom(_, _, _, _)
\* the bytes i..8 of a + b with carry c into byte i, followed by the carry out
AddFrom(a, b, i, c) ==
    IF i > U64Bytes THEN <<c>>
    ELSE LET s == a[i] + b[i] + c
         IN  <<s % Byte>> \o AddFrom(a, b, i + 1, s \div Byte)

\* the true sum of two u64 as 9 bytes (byte 9 is the carry out of bit 63)
TrueAdd(a, b) == AddFrom(a, b, 1, 0)

Overflows(a, b) == TrueAdd(a, b)[U64Bytes + 1] # 0

\* a + b modulo 2^64
WrappingAdd(a, b) == SubSeq(TrueAdd(a, b), 1, U64Bytes)

\* usize::saturating_add
SaturatingAdd(a, b) == IF Overflows(a, b) THEN U64Max ELSE WrappingAdd(a, b)

RECURSIVE SubFrom(_, _, _, _)
\* the bytes i..8 of a - b with borrow c out of byte i-1 (modulo 2^64)
SubFrom(a, b, i, c) ==
    IF i > U64Bytes THEN <<>>
    ELSE LET d == a[i] - b[i] - c
         IN  IF d < 0 THEN <<d + Byte>> \o SubFrom(a, b, i + 1, 1)
             ELSE <<d>> \o SubFrom(a, b, i + 1, 0)

WrappingSub(a, b) == SubFrom(a, b, 1, 0)

\* a 9-byte true sum compared with a u64
TrueLe(sum9, b) == sum9[U64Bytes + 1] = 0 /\ Le(SubSeq(sum9, 1, U64Bytes), b)

\* the natural number of a u64 below 2^24 (every file offset of the model is)
IsSmall(a) == \A i \in 4..U64Bytes : a[i] = 0
ToNat(a) == a[1] + Byte * a[2] + Byte * Byte * a[3]


\* ------------------------------------------------------------------------
\* Program constants
\* ------------------------------------------------------------------------

\* size_of::<AssetHeader>(): four u64 fields
ASSET_HEADER_SIZE == 32

\* the initial scan_step (the pointer size)
InitialScanStep == 8

\* b'/'
Slash == 47

\* the first byte value that is not ASCII (u8::is_ascii is b < 128)
AsciiLimit == 128

\* the number of low bytes `rva & 0xFFFFFFFFFFFF` keeps
MachOPointerBytes == 6

\* ------------------------------------------------------------------------
\* State
\* ------------------------------------------------------------------------

VARIABLES
    pc,               \* position of main: "new", "search", "scan", "found", "dump",
                      \* or an end: "done", "error" (main returns Err), "panic"
    input,            \* what the object crate reports for the file: format and sections
    overflow_checks,  \* the build: TRUE when integer overflow panics (debug profile),
                      \* FALSE when it wraps (release profile)
    debug_assertions, \* the build: TRUE when a misaligned pointer dereference panics
                      \* (debug profile), FALSE when the read is left to the hardware
    mmap,             \* Dumper.mmap: the bytes of the file
    sections,         \* Dumper.sections
    binary_format,    \* Dumper.binary_format
    end_offset,       \* heuristic_search_assets: end_offset
    scan_start,       \* heuristic_search_assets: scan_start
    offset,           \* heuristic_search_assets: offset
    scan_step,        \* heuristic_search_assets: scan_step
    assets,           \* heuristic_search_assets: assets, then main's assets
    last,             \* the locals of the latest parse_asset call and its result
    examined,         \* history: the offsets parse_asset was called with, in order
    hits,             \* history: the offsets whose asset was pushed, in order
    written,          \* main: the relative paths written so far
    failure           \* the message of the error or panic that ended the run

vars == <<pc, input, overflow_checks, debug_assertions, mmap, sections, binary_format, end_offset,
          scan_start, offset, scan_step, assets, last, examined, hits, written,
          failure>>

\* ------------------------------------------------------------------------
\* Results
\* ------------------------------------------------------------------------

Ok(v) == [tag |-> "Ok", val |-> v]
Err(msg) == [tag |-> "Err", val |-> msg]
Panic(msg) == [tag |-> "Panic", val |-> msg]

\* ------------------------------------------------------------------------
\* Dumper::new
\* ------------------------------------------------------------------------

\* the filter of the PE branch
IsRdata(s) == s.name = ".rdata" /\ s.kind = "ReadOnlyData"

\* the two filters of the Mach-O branch
IsMachOConst(s) ==
    /\ (s.segment_name = "__TEXT" \/ s.segment_name = "__DATA_CONST")
    /\ s.name = "__const"

\* the .map(|s| SectionInfo {..}) of both branches
SectionInfo(s) ==
    [virtual_address |-> s.address, file_offset |-> s.file_offset, size |-> s.size]

RECURSIVE FilterMap(_, _)
\* obj.sections().filter(..).map(..).collect(), keeping the container's order
FilterMap(secs, fmt) ==
    IF secs = <<>> THEN <<>>
    ELSE LET s == Head(secs)
             keep == IF fmt = "Pe" THEN IsRdata(s) ELSE IsMachOConst(s)
         IN  (IF keep THEN <<SectionInfo(s)>> ELSE <<>>) \o FilterMap(Tail(secs), fmt)

\* s.file_range().unwrap() panics for a kept section that has no bytes in the file
RECURSIVE UnwrapFails(_, _)
UnwrapFails(secs, fmt) ==
    IF secs = <<>> THEN FALSE
    ELSE LET s == Head(secs)
             keep == IF fmt = "Pe" THEN IsRdata(s) ELSE IsMachOConst(s)
         IN  (keep /\ ~s.has_file_range) \/ UnwrapFails(Tail(secs), fmt)

\* Dumper::new as a function of what the object crate reports
DumperNew(in) ==
    IF in.format = "Invalid" THEN Err("object::File::parse failed")
    ELSE IF in.format \notin {"Pe", "MachO"} THEN Panic("unreachable")
    ELSE IF UnwrapFails(in.sections, in.format)
    THEN Panic("called Option::unwrap() on a None value")
    ELSE Ok([sections |-> FilterMap(in.sections, in.format),
             binary_format |-> in.format])

\* ------------------------------------------------------------------------
\* Dumper::convert_rva_to_file_offset
\* ------------------------------------------------------------------------

\* rva & 0xFFFFFFFFFFFF
Mask48(rva) == [i \in 1..U64Bytes |-> IF i <= MachOPointerBytes THEN rva[i] ELSE 0]

\* an unchecked `a + b` on u64: panics under overflow checks, wraps otherwise
CheckedAdd(a, b, checks) ==
    IF Overflows(a, b) /\ checks THEN Panic("attempt to add with overflow")
    ELSE Ok(WrappingAdd(a, b))

convert_rva_to_file_offset(fmt, secs, checks, rva) ==
    IF fmt = "MachO" THEN Ok(Mask48(rva))
    ELSE IF secs = <<>> THEN Err("RDATA section not found")
    ELSE LET section == secs[1]
             limit == CheckedAdd(section.virtual_address, section.size, checks)
         IN  IF ~Ge(rva, section.virtual_address)
             THEN Err("RVA is not in rdata section")
             ELSE IF limit.tag = "Panic" THEN limit
             ELSE IF Lt(rva, limit.val)
             THEN CheckedAdd(WrappingSub(rva, section.virtual_address),
                             section.file_offset, checks)
             ELSE Err("RVA is not in rdata section")

\* ------------------------------------------------------------------------
\* The compression codec (brotli::Decompressor, an external collaborator)
\* ------------------------------------------------------------------------

\* the first byte of every stream the codec of the model decompresses to the end
BrotliStreamByte == 6

\* whether read_to_end over the slice succeeds: the codec is abstracted to a
\* function of the bytes that rejects the empty slice and decides on the first byte
BrotliOk(bytes) == Len(bytes) > 0 /\ bytes[1] = BrotliStreamByte

\* ------------------------------------------------------------------------
\* Slices of the mapped file
\* ------------------------------------------------------------------------

Min(a, b) == IF a < b THEN a ELSE b

\* the bytes at the file offsets [off, off + len); the indices the code has bounds
\* checked are small, an index range that leaves the file is cut at its end
Slice(m, off, len) ==
    IF ~IsSmall(off) \/ ToNat(off) >= Len(m) THEN <<>>
    ELSE IF ~IsSmall(len) THEN SubSeq(m, ToNat(off) + 1, Len(m))
    ELSE SubSeq(m, ToNat(off) + 1, Min(ToNat(off) + ToNat(len), Len(m)))

\* the byte range [off, off + len) as the pair of its start and its true end
Range(off, len) == <<off, TrueAdd(off, len)>>

\* the u64 at file offset off (a natural number), in file byte order
ReadU64(m, off) == SubSeq(m, off + 1, off + U64Bytes)

\* ------------------------------------------------------------------------
\* Dumper::validate_asset_pointers
\* ------------------------------------------------------------------------

\* the range conditions with wrapping sums in the place of saturating ones
PointersOutOfRange_Wrapping(m, name_ptr, name_len, data_ptr, data_size) ==
    LET len == U64(Len(m))
    IN  \/ Ge(name_ptr, len)
        \/ Gt(WrappingAdd(name_ptr, name_len), len)
        \/ Ge(data_ptr, len)
        \/ Gt(WrappingAdd(data_ptr, data_size), len)

\* the four range conditions, any of which makes the validator return false
PointersOutOfRange(m, name_ptr, name_len, data_ptr, data_size) ==
    LET len == U64(Len(m))
    IN  \/ Ge(name_ptr, len)
        \/ Gt(SaturatingAdd(name_ptr, name_len), len)
        \/ Ge(data_ptr, len)
        \/ Gt(SaturatingAdd(data_ptr, data_size), len)

\* a validator that does not look at the name byte
NameFormatBad_Skipped(m, name_ptr) == FALSE

\* self.mmap[name_offset] != b'/'
NameFormatBad(m, name_ptr) == Slice(m, name_ptr, U64(1)) # <<Slash>>

validate_asset_pointers(m, name_ptr, name_len, data_ptr, data_size) ==
    IF PointersOutOfRange(m, name_ptr, name_len, data_ptr, data_size) THEN FALSE
    ELSE IF NameFormatBad(m, name_ptr) THEN FALSE
    ELSE BrotliOk(Slice(m, data_ptr, data_size))

\* the byte ranges validate_asset_pointers indexes the file with, in order
ValidateReads(m, name_ptr, name_len, data_ptr, data_size) ==
    IF PointersOutOfRange(m, name_ptr, name_len, data_ptr, data_size) THEN {}
    ELSE IF NameFormatBad(m, name_ptr) THEN {Range(name_ptr, U64(1))}
    ELSE {Range(name_ptr, U64(1)), Range(data_ptr, data_size)}

\* ------------------------------------------------------------------------
\* Dumper::retrieve_asset_name, retrieve_asset_data, decompress_asset
\* ------------------------------------------------------------------------

retrieve_asset_name(m, off, len) ==
    LET name == Slice(m, off, len)
    IN  IF \E i \in 1..Len(name) : name[i] >= AsciiLimit
        THEN Err("invalid name")
        ELSE Ok(name)

retrieve_asset_data(m, off, len) == Ok(Slice(m, off, len))

decompress_asset(asset) ==
    IF BrotliOk(asset.data) THEN Ok("decompressed") ELSE Err("decompression failed")

\* ------------------------------------------------------------------------
\* Dumper::parse_asset
\* ------------------------------------------------------------------------

\* the header the 32 bytes at offset are reinterpreted as
AssetHeader(m, off) ==
    [name_ptr  |-> ReadU64(m, off),
     name_len  |-> ReadU64(m, off + U64Bytes),
     data_ptr  |-> ReadU64(m, off + 2 * U64Bytes),
     data_size |-> ReadU64(m, off + 3 * U64Bytes)]

NoHeader == [name_ptr |-> <<>>, name_len |-> <<>>, data_ptr |-> <<>>, data_size |-> <<>>]

\* &*(chunk.as_ptr() as *const AssetHeader): the map starts on a page boundary, so
\* the reference is misaligned when the offset is no multiple of the alignment of
\* AssetHeader (that of u64)
Misaligned(off) == off % U64Bytes # 0

\* parse_asset: its result (res) with the locals it computed on the way and the
\* byte ranges of the file it read (reads).  A misaligned header reference is
\* undefined behaviour: a build with debug assertions panics on it, a build
\* without them reads the bytes.
parse_asset(m, fmt, secs, checks, asserts, off) ==
    IF off + ASSET_HEADER_SIZE > Len(m)
    THEN [res |-> Err("offset is out of range"), header |-> NoHeader,
          name_off |-> Err("not reached"), data_off |-> Err("not reached"), reads |-> {}]
    ELSE IF Misaligned(off) /\ asserts
    THEN [res |-> Panic("misaligned pointer dereference"), header |-> NoHeader,
          name_off |-> Err("not reached"), data_off |-> Err("not reached"), reads |-> {}]
    ELSE
    LET header == AssetHeader(m, off)
        chunk == {Range(U64(off), U64(ASSET_HEADER_SIZE))}
        name_off == convert_rva_to_file_offset(fmt, secs, checks, header.name_ptr)
        data_off == IF name_off.tag = "Ok"
                    THEN convert_rva_to_file_offset(fmt, secs, checks, header.data_ptr)
                    ELSE Err("not reached")
        out(r, rd) == [res |-> r, header |-> header, name_off |-> name_off,
                       data_off |-> data_off, reads |-> chunk \cup rd]
    IN  IF name_off.tag # "Ok" THEN out(name_off, {})
        ELSE IF data_off.tag # "Ok" THEN out(data_off, {})
        ELSE
        LET vreads == ValidateReads(m, name_off.val, header.name_len,
                                    data_off.val, header.data_size)
        IN  IF ~validate_asset_pointers(m, name_off.val, header.name_len,
                                        data_off.val, header.data_size)
            THEN out(Err("invalid asset pointers"), vreads)
            ELSE
            LET name == retrieve_asset_name(m, name_off.val, header.name_len)
                data == retrieve_asset_data(m, data_off.val, header.data_size)
                nread == vreads \cup {Range(name_off.val, header.name_len)}
            IN  IF name.tag # "Ok" THEN out(name, nread)
                ELSE out(Ok([name |-> name.val, data |-> data.val]),
                         nread \cup {Range(data_off.val, header.data_size)})

\* ------------------------------------------------------------------------
\* Dumper::heuristic_search_assets
\* ------------------------------------------------------------------------

\* the section the scan range is taken from: sections.first() for PE,
\* sections.last() for Mach-O; the expect() panics when there is none
ScanSection(fmt, secs) ==
    IF secs = <<>>
    THEN Panic(IF fmt = "Pe" THEN "RDATA section not found"
               ELSE "__DATA_CONST section not found")
    ELSE Ok(IF fmt = "Pe" THEN secs[1] ELSE secs[Len(secs)])

\* end_offset as a wrapping sum
EndOffset_Wrapping(start, length) == WrappingAdd(start, length)

\* let end_offset = scan_start.saturating_add(scan_length)
EndOffset(start, length) == SaturatingAdd(start, length)

\* assert!(end_offset <= self.mmap.len(), ..)
EndInRange(m, end) == Le(end, U64(Len(m)))

\* the loop condition
LoopCondition(off, end) == off + ASSET_HEADER_SIZE <= end

\* a push that drops an asset equal to one already in the list
Push_Dedup(list, asset) ==
    IF \E i \in 1..Len(list) : list[i] = asset THEN list ELSE Append(list, asset)

\* assets.push(asset)
Push(list, asset) == Append(list, asset)

\* a step that grows with each hit, and a step that falls back to 8 on a miss
StepAfter_Overstep(step, accepted) ==
    IF accepted THEN ASSET_HEADER_SIZE + step ELSE step
StepAfter_Reset(step, accepted) ==
    IF accepted THEN ASSET_HEADER_SIZE ELSE InitialScanStep

\* scan_step after the body of the `if let Ok(asset)` for this offset
StepAfter(step, accepted) == IF accepted THEN ASSET_HEADER_SIZE ELSE step

\* offset += scan_step, with the scan_step the iteration began with
OffsetAfter_StaleStep(off, step, accepted) == off + step

\* offset += scan_step, with the scan_step the iteration leaves
OffsetAfter(off, step, accepted) == off + StepAfter(step, accepted)

\* ------------------------------------------------------------------------
\* main: the emission of one asset
\* ------------------------------------------------------------------------

\* &asset.name[1..]: panics when the name has no byte at index 1 to start from
StripLeading(name) ==
    IF Len(name) < 1 THEN Panic("byte index 1 is out of bounds")
    ELSE Ok(SubSeq(name, 2, Len(name)))

\* ------------------------------------------------------------------------
\* Actions
\* ------------------------------------------------------------------------

Stop(where, msg) ==
    /\ pc' = where
    /\ failure' = msg

\* let dumper = Dumper::new(file)?
New ==
    /\ pc = "new"
    /\ LET r == DumperNew(input)
       IN  \/ /\ r.tag = "Ok"
              /\ pc' = "search"
              /\ sections' = r.val.sections
              /\ binary_format' = r.val.binary_format
              /\ UNCHANGED failure
           \/ /\ r.tag = "Err"
              /\ Stop("error", r.val)
              /\ UNCHANGED <<sections, binary_format>>
           \/ /\ r.tag = "Panic"
              /\ Stop("panic", r.val)
              /\ UNCHANGED <<sections, binary_format>>
    /\ UNCHANGED <<input, overflow_checks, debug_assertions, mmap, end_offset, scan_start, offset,
                   scan_step, assets, last, examined, hits, written>>

\* heuristic_search_assets up to its loop: the scan range and the assertion
SearchBegin ==
    /\ pc = "search"
    /\ LET sec == ScanSection(binary_format, sections)
       IN  \/ /\ sec.tag = "Panic"
              /\ Stop("panic", sec.val)
              /\ UNCHANGED <<end_offset, scan_start, offset, scan_step>>
           \/ /\ sec.tag = "Ok"
              /\ ~EndInRange(mmap, EndOffset(sec.val.file_offset, sec.val.size))
              /\ Stop("panic", "end_offset is out of range")
              /\ UNCHANGED <<end_offset, scan_start, offset, scan_step>>
           \/ /\ sec.tag = "Ok"
              /\ EndInRange(mmap, EndOffset(sec.val.file_offset, sec.val.size))
              /\ pc' = "scan"
              /\ scan_start' = ToNat(sec.val.file_offset)
              /\ end_offset' = ToNat(EndOffset(sec.val.file_offset, sec.val.size))
              /\ offset' = ToNat(sec.val.file_offset)
              /\ scan_step' = InitialScanStep
              /\ UNCHANGED failure
    /\ UNCHANGED <<input, overflow_checks, debug_assertions, mmap, sections, binary_format, assets,
                   last, examined, hits, written>>

\* one iteration of the while loop
ScanStep ==
    /\ pc = "scan"
    /\ LoopCondition(offset, end_offset)
    /\ LET p == parse_asset(mmap, binary_format, sections, overflow_checks,
                            debug_assertions, offset)
       IN  /\ last' = p
           /\ examined' = Append(examined, offset)
           /\ \/ /\ p.res.tag = "Ok"
                 /\ assets' = Push(assets, p.res.val)
                 /\ hits' = Append(hits, offset)
                 /\ scan_step' = StepAfter(scan_step, TRUE)
                 /\ offset' = OffsetAfter(offset, scan_step, TRUE)
                 /\ UNCHANGED <<pc, failure>>
              \/ /\ p.res.tag = "Err"
                 /\ scan_step' = StepAfter(scan_step, FALSE)
                 /\ offset' = OffsetAfter(offset, scan_step, FALSE)
                 /\ UNCHANGED <<pc, failure, assets, hits>>
              \/ /\ p.res.tag = "Panic"
                 /\ Stop("panic", p.res.val)
                 /\ UNCHANGED <<assets, hits, scan_step, offset>>
    /\ UNCHANGED <<input, overflow_checks, debug_assertions, mmap, sections, binary_format,
                   end_offset, scan_start, written>>

\* the loop ends: Ok(assets), and main's check for an empty result
SearchEnd ==
    /\ pc = "scan"
    /\ ~LoopCondition(offset, end_offset)
    /\ \/ /\ assets = <<>>
          /\ Stop("error", "No assets found")
       \/ /\ assets # <<>>
          /\ pc' = "dump"
          /\ UNCHANGED failure
    /\ UNCHANGED <<input, overflow_checks, debug_assertions, mmap, sections, binary_format,
                   end_offset, scan_start, offset, scan_step, assets, last,
                   examined, hits, written>>

\* one iteration of main's `for asset in assets`
Dump ==
    /\ pc = "dump"
    /\ Len(written) < Len(assets)
    /\ LET asset == assets[Len(written) + 1]
           decompressed == decompress_asset(asset)
           path == StripLeading(asset.name)
       IN  \/ /\ decompressed.tag = "Err"
              /\ Stop("error", decompressed.val)
              /\ UNCHANGED written
           \/ /\ decompressed.tag = "Ok"
              /\ path.tag = "Panic"
              /\ Stop("panic", path.val)
              /\ UNCHANGED written
           \/ /\ decompressed.tag = "Ok"
              /\ path.tag = "Ok"
              /\ written' = Append(written, path.val)
              /\ UNCHANGED <<pc, failure>>
    /\ UNCHANGED <<input, overflow_checks, debug_assertions, mmap, sections, binary_format,
                   end_offset, scan_start, offset, scan_step, assets, last,
                   examined, hits>>

\* println!("Done :)"); Ok(())
Finish ==
    /\ pc = "dump"
    /\ Len(written) = Len(assets)
    /\ pc' = "done"
    /\ UNCHANGED <<input, overflow_checks, debug_assertions, mmap, sections, binary_format,
                   end_offset, scan_start, offset, scan_step, assets, last,
                   examined, hits, written, failure>>

Next == New \/ SearchBegin \/ ScanStep \/ SearchEnd \/ Dump \/ Finish

\* ------------------------------------------------------------------------
\* The inputs: containers and files
\* ------------------------------------------------------------------------

FileLen == U64Bytes * FileWords

\* the file offset of the name and data bytes the descriptors point to
BlobBase == FileLen - 2 * U64Bytes

\* name bytes "/ab" followed by a non-ASCII byte; then a stream the codec accepts,
\* a byte it rejects as the start of a stream, and a '/' as the last byte of the file
Blob == <<Slash, 97, 98, 200, 0, 0, 0, 0, BrotliStreamByte, 1, 0, 0, 0, 0, 0, Slash>>

Section(name, segment, kind, va, fo, size) ==
    [name |-> name, segment_name |-> segment, kind |-> kind, address |-> va,
     has_file_range |-> TRUE, file_offset |-> U64(fo), size |-> size]

\* a section without bytes in the file: file_range() is None
Uninitialized(s) == [s EXCEPT !.has_file_range = FALSE]

Rdata(va, fo, size) == Section(".rdata", "", "ReadOnlyData", va, fo, size)
Const(segment, fo, size) == Section("__const", segment, "ReadOnlyData", U64(0), fo, size)

\* an image base, and one so high that virtual_address + size passes 2^64
BaseVa == U64(4096)
HighVa == WrappingSub(U64(0), U64(2 * U64Bytes))

PeText == Section(".text", "", "Text", U64(1024), 0, U64(FileLen))
PeData == Section(".rdata", "", "Data", BaseVa, 0, U64(FileLen))

\* containers whose run ends before the scan loop
EarlyContainers ==
    { [format |-> "Invalid", sections |-> <<>>],
      [format |-> "Elf", sections |-> <<PeText>>],
      [format |-> "Pe", sections |-> <<>>],
      [format |-> "Pe", sections |-> <<PeText, PeData>>],
      [format |-> "Pe", sections |-> <<Rdata(BaseVa, U64Bytes, U64(FileLen))>>],
      [format |-> "Pe", sections |-> <<Rdata(BaseVa, U64Bytes, U64Max)>>],
      [format |-> "Pe", sections |-> <<Uninitialized(Rdata(BaseVa, 0, U64(FileLen)))>>],
      [format |-> "MachO", sections |-> <<>>],
      [format |-> "MachO", sections |-> <<Const("__DATA", 0, U64(FileLen))>>],
      [format |-> "MachO", sections |-> <<Const("__DATA_CONST", U64Bytes, U64Max)>>] }

\* containers whose designated region lies in the file
ScanContainers ==
    { [format |-> "Pe", sections |-> <<Rdata(BaseVa, 0, U64(FileLen))>>],
      [format |-> "Pe",
       sections |-> <<PeText, Rdata(BaseVa, U64Bytes, U64(FileLen - U64Bytes))>>],
      [format |-> "Pe", sections |-> <<Rdata(HighVa, 0, U64(FileLen))>>],
      [format |-> "Pe", sections |-> <<Rdata(BaseVa, 4, U64(FileLen - 4))>>],
      [format |-> "Pe", sections |-> <<Rdata(BaseVa, 0, U64(ASSET_HEADER_SIZE - 1))>>],
      [format |-> "Pe",
       sections |-> <<Rdata(BaseVa, 0, U64(FileLen)),
                      Rdata(U64(1024), U64Bytes, U64(ASSET_HEADER_SIZE))>>],
      [format |-> "MachO",
       sections |-> <<Const("__TEXT", 0, U64(ASSET_HEADER_SIZE)),
                      Const("__DATA_CONST", 0, U64(FileLen))>>],
      [format |-> "MachO",
       sections |-> <<Const("__DATA_CONST", U64Bytes, U64(FileLen - U64Bytes)),
                      Section("__text", "__TEXT", "Text", U64(0), 0, U64(FileLen))>>] }

\* the virtual address and file offset the pointers of a file are laid out for:
\* those of the first section Dumper::new keeps (PE); file offsets themselves (Mach-O)
Layout(in) ==
    LET kept == FilterMap(in.sections, in.format)
    IN  IF in.format = "Pe" /\ kept # <<>>
        THEN [va |-> kept[1].virtual_address, fo |-> ToNat(kept[1].file_offset)]
        ELSE [va |-> U64(0), fo |-> 0]

\* the pointer a well-formed file stores for the byte at file offset target; a
\* Mach-O pointer carries a tag in its high 16 bits
PtrTo(in, target) ==
    LET lay == Layout(in)
        addr == IF target >= lay.fo
                THEN WrappingAdd(lay.va, U64(target - lay.fo))
                ELSE WrappingSub(lay.va, U64(lay.fo - target))
    IN  IF in.format = "MachO"
        THEN [i \in 1..U64Bytes |-> IF i = U64Bytes THEN AsciiLimit ELSE addr[i]]
        ELSE addr

\* descriptor shapes: the file offsets the two pointers refer to, and the lengths
Shape(np, nl, dp, ds) == [np |-> np, nl |-> nl, dp |-> dp, ds |-> ds]

Good == Shape(BlobBase, U64(3), BlobBase + U64Bytes, U64(2))

\* the name does not start with '/'
NoSlash == Shape(BlobBase + 1, U64(2), BlobBase + U64Bytes, U64(2))

Shapes ==
    { Good,
      NoSlash,
      \* the data is no stream of the codec
      Shape(BlobBase, U64(3), BlobBase + U64Bytes + 1, U64(2)),
      \* empty data
      Shape(BlobBase, U64(3), BlobBase + U64Bytes, U64(0)),
      \* empty name
      Shape(BlobBase, U64(0), BlobBase + U64Bytes, U64(2)),
      \* a non-ASCII byte in the name
      Shape(BlobBase, U64(4), BlobBase + U64Bytes, U64(2)),
      \* name_offset + name_len wraps to a value inside the file
      Shape(BlobBase, U64Max, BlobBase + U64Bytes, U64(2)),
      \* data_offset + data_size wraps to a value inside the file
      Shape(BlobBase, U64(3), BlobBase + U64Bytes, WrappingSub(U64(0), U64(U64Bytes))),
      \* the name is the last byte of the file, the data ends with the file
      Shape(FileLen - 1, U64(1), BlobBase + U64Bytes, U64(U64Bytes)),
      \* the name pointer is the first address behind the region and the file
      Shape(FileLen, U64(0), BlobBase + U64Bytes, U64(2)),
      \* the data pointer is the first address behind the region and the file
      Shape(BlobBase, U64(3), FileLen, U64(0)),
      \* name and data reach one byte behind the file
      Shape(BlobBase, U64(2 * U64Bytes + 1), BlobBase + U64Bytes, U64(2)),
      Shape(BlobBase, U64(3), BlobBase + U64Bytes, U64(U64Bytes + 1)),
      \* the name pointer refers to the start of the file
      Shape(U64Bytes, U64(1), BlobBase + U64Bytes, U64(2)) }

\* the 32 bytes of a descriptor
Descriptor(in, sh) == PtrTo(in, sh.np) \o sh.nl \o PtrTo(in, sh.dp) \o sh.ds

\* the file m with bytes written at file offset pos
Overlay(m, pos, bytes) ==
    [i \in 1..Len(m) |->
        IF i > pos /\ i <= pos + Len(bytes) THEN bytes[i - pos] ELSE m[i]]

\* a file of zero bytes with the blob at its end
PlainFile == Overlay([i \in 1..FileLen |-> 0], BlobBase, Blob)

\* where the first descriptor of a file lies
FirstPlaces == {0, 4, U64Bytes}

\* a second descriptor (shape and place) behind the first
Seconds ==
    { <<Good, ASSET_HEADER_SIZE>>,
      <<Good, ASSET_HEADER_SIZE + U64Bytes>>,
      <<Good, 2 * ASSET_HEADER_SIZE>>,
      <<NoSlash, ASSET_HEADER_SIZE>> }

FileOf(in, sh, place, second) ==
    LET one == Overlay(PlainFile, place, Descriptor(in, sh))
    IN  IF second = <<>> THEN one
        ELSE Overlay(one, second[2], Descriptor(in, second[1]))

\* files with one descriptor of any shape, and files with two descriptors
Files(in) ==
    { FileOf(in, sh, place, <<>>) : sh \in Shapes, place \in FirstPlaces }
    \cup { FileOf(in, sh, place, second) :
             sh \in {Good, NoSlash}, place \in FirstPlaces, second \in Seconds }

\* ------------------------------------------------------------------------
\* Specification
\* ------------------------------------------------------------------------

NotParsed ==
    [res |-> Err("not called"), header |-> NoHeader, name_off |-> Err("not reached"),
     data_off |-> Err("not reached"), reads |-> {}]

Init ==
    /\ pc = "new"
    /\ \/ /\ input \in ScanContainers
          /\ mmap \in Files(input)
       \/ /\ input \in EarlyContainers
          /\ mmap = FileOf(input, Good, 0, <<>>)
    /\ overflow_checks \in BOOLEAN
    /\ debug_assertions \in BOOLEAN
    /\ sections = <<>>
    /\ binary_format = "None"
    /\ end_offset = 0
    /\ scan_start = 0
    /\ offset = 0
    /\ scan_step = 0
    /\ assets = <<>>
    /\ last = NotParsed
    /\ examined = <<>>
    /\ hits = <<>>
    /\ written = <<>>
    /\ failure = ""

Spec == Init /\ [][Next]_vars

\* ------------------------------------------------------------------------
\* Vocabulary of the properties
\* ------------------------------------------------------------------------

InSeq(x, seq) == \E i \in 1..Len(seq) : seq[i] = x

\* parse_asset at file offset o, for the session of the current state
ParseAt(o) ==
    parse_asset(mmap, binary_format, sections, overflow_checks, debug_assertions, o)
Accepts(o) == ParseAt(o).res.tag = "Ok"

\* heuristic_search_assets has returned Ok(assets)
ScanReturned ==
    \/ pc \in {"dump", "done"}
    \/ failure \in {"No assets found", "decompression failed",
                    "byte index 1 is out of bounds"}

\* the offsets of the scan region at which a whole record fits
RegionOffsets == {o \in scan_start..end_offset : o + ASSET_HEADER_SIZE <= end_offset}

\* the offsets on the scan's grid: every 8th offset from scan_start up to the first
\* one that validates, every 32nd offset from that one on
OnGrid(o) ==
    LET before == {f \in RegionOffsets :
                     f < o /\ (f - scan_start) % InitialScanStep = 0 /\ Accepts(f)}
    IN  IF before = {} THEN (o - scan_start) % InitialScanStep = 0
        ELSE LET first == CHOOSE f \in before : \A g \in before : f <= g
             IN  (o - first) % ASSET_HEADER_SIZE = 0

Valid == {o \in RegionOffsets : Accepts(o)}

\* ------------------------------------------------------------------------
\* C1
\* ------------------------------------------------------------------------

\* C1 as stated: when the scan has returned, every offset of the scan region at
\* which parse_asset accepts the 32 bytes has its Asset in the result; a region
\* with exactly one such offset yields exactly one Asset.
C1_EveryValidDescriptorFound ==
    ScanReturned =>
        LET valid == Valid
        IN  /\ \A o \in valid : InSeq(o, hits)
            /\ Cardinality(valid) = 1 => Len(assets) = 1

\* C1 amended: when the scan has returned, every offset on the scan's grid (every
\* 8th offset from scan_start up to the first accepted one, every 32nd offset from
\* there on) at which parse_asset accepts has its Asset in the result, and no other
\* offset has one; a region whose only validating offset lies a multiple of 8 behind
\* scan_start yields exactly one Asset.
C1_EveryValidDescriptorOnGridFound ==
    ScanReturned =>
        LET valid == Valid
        IN  /\ \A o \in valid : OnGrid(o) <=> InSeq(o, hits)
            /\ \A x \in valid :
                 (valid = {x} /\ (x - scan_start) % InitialScanStep = 0)
                    => Len(assets) = 1

\* the scan returned one Asset for the only validating offset of its region
C1_Witness ==
    /\ ScanReturned
    /\ LET valid == Valid
       IN  Cardinality(valid) = 1 /\ \A o \in valid : hits = <<o>>

\* ------------------------------------------------------------------------
\* C2
\* ------------------------------------------------------------------------

\* C2 as stated: for a PE file with no section or more than one section matching
\* the .rdata / ReadOnlyData predicate, initialization fails, so that the run never
\* gets to the scan: no offset is examined, no pointer translated, no asset dumped.
C2_AmbiguousRegionFailsInit ==
    (input.format = "Pe" /\ Len(FilterMap(input.sections, "Pe")) # 1) =>
        /\ pc \notin {"scan", "dump", "done"}
        /\ examined = <<>>
        /\ written = <<>>

\* ------------------------------------------------------------------------
\* C3
\* ------------------------------------------------------------------------

\* C3: the offset examined after an accepted offset X is X + 32 (and while the scan
\* runs, the offset it will examine next is X + 32); so of two descriptors that
\* validate at X and X + 32, with X examined, the second is found too.
C3_NextAfterAcceptIsNextRecord ==
    /\ \A i \in 1..Len(examined) :
         InSeq(examined[i], hits) =>
            /\ i < Len(examined) => examined[i + 1] = examined[i] + ASSET_HEADER_SIZE
            /\ (i = Len(examined) /\ pc = "scan") =>
                  offset = examined[i] + ASSET_HEADER_SIZE
    /\ ScanReturned =>
         \A i \in 1..Len(examined) :
            LET x == examined[i]
            IN  (x + 2 * ASSET_HEADER_SIZE <= end_offset
                 /\ Accepts(x) /\ Accepts(x + ASSET_HEADER_SIZE))
                    => InSeq(x + ASSET_HEADER_SIZE, hits)

\* two descriptors back to back, both found
C3_Witness ==
    /\ ScanReturned
    /\ Len(hits) = 2
    /\ hits[2] = hits[1] + ASSET_HEADER_SIZE

\* ------------------------------------------------------------------------
\* C4
\* ------------------------------------------------------------------------

\* the byte of the file at the u64 offset off, or -1 when there is none
ByteAt(off) ==
    IF IsSmall(off) /\ ToNat(off) < Len(mmap) THEN mmap[ToNat(off) + 1] ELSE -1

\* the translation of the name and data pointers of the record at o
NameOffsetAt(o) ==
    convert_rva_to_file_offset(binary_format, sections, overflow_checks,
                               ReadU64(mmap, o))
DataOffsetAt(o) ==
    convert_rva_to_file_offset(binary_format, sections, overflow_checks,
                               ReadU64(mmap, o + 2 * U64Bytes))
NameLenAt(o) == ReadU64(mmap, o + U64Bytes)
DataSizeAt(o) == ReadU64(mmap, o + 3 * U64Bytes)

\* the record at o names a '/' byte and a byte range the codec decompresses
PassesNameAndCodec(o) ==
    /\ NameOffsetAt(o).tag = "Ok"
    /\ DataOffsetAt(o).tag = "Ok"
    /\ ByteAt(NameOffsetAt(o).val) = Slash
    /\ IsSmall(DataOffsetAt(o).val) /\ IsSmall(DataSizeAt(o))
    /\ ToNat(DataOffsetAt(o).val) + ToNat(DataSizeAt(o)) <= Len(mmap)
    /\ BrotliOk(SubSeq(mmap, ToNat(DataOffsetAt(o).val) + 1,
                       ToNat(DataOffsetAt(o).val) + ToNat(DataSizeAt(o))))

\* C4: every recorded Asset comes from a record whose translated name offset holds
\* '/' and whose data range the codec decompresses to the end; an examined record
\* that fails either never produces an Asset.
C4_AcceptedPassedValidator ==
    /\ Len(hits) = Len(assets)
    /\ \A i \in 1..Len(hits) :
         /\ PassesNameAndCodec(hits[i])
         /\ BrotliOk(assets[i].data)
    /\ \A i \in 1..Len(examined) :
         ~PassesNameAndCodec(examined[i]) => ~InSeq(examined[i], hits)

\* a record with a name that does not start with '/' was examined and rejected,
\* all its ranges being in the file and its data a stream of the codec
C4_Witness ==
    /\ last.res.tag = "Err"
    /\ last.name_off.tag = "Ok"
    /\ last.data_off.tag = "Ok"
    /\ ~PointersOutOfRange(mmap, last.name_off.val, last.header.name_len,
                           last.data_off.val, last.header.data_size)
    /\ ByteAt(last.name_off.val) # Slash
    /\ BrotliOk(Slice(mmap, last.data_off.val, last.header.data_size))

\* ------------------------------------------------------------------------
\* C5
\* ------------------------------------------------------------------------

FileLength == U64(Len(mmap))

\* [off, off + len) lies in the file, the sum taken without wraparound
InFile(off, len) == Lt(off, FileLength) /\ TrueLe(TrueAdd(off, len), FileLength)

\* C5: an accepted record has name_offset < file_len, name_offset + name_len <=
\* file_len, data_offset < file_len and data_offset + data_size <= file_len, the sums
\* being the true sums (a length that makes the 64-bit sum wrap is rejected); and
\* every byte range parse_asset reads, for an accepted or a rejected record, ends in
\* the file.
C5_BoundsWithoutWraparound ==
    /\ \A i \in 1..Len(hits) :
         /\ NameOffsetAt(hits[i]).tag = "Ok"
         /\ DataOffsetAt(hits[i]).tag = "Ok"
         /\ InFile(NameOffsetAt(hits[i]).val, NameLenAt(hits[i]))
         /\ InFile(DataOffsetAt(hits[i]).val, DataSizeAt(hits[i]))
    /\ \A r \in last.reads : TrueLe(r[2], FileLength)
    /\ \A i \in 1..Len(examined) :
         (/\ NameOffsetAt(examined[i]).tag = "Ok"
          /\ DataOffsetAt(examined[i]).tag = "Ok"
          /\ \/ Overflows(NameOffsetAt(examined[i]).val, NameLenAt(examined[i]))
             \/ Overflows(DataOffsetAt(examined[i]).val, DataSizeAt(examined[i])))
            => ~InSeq(examined[i], hits)

\* a record whose data_offset + data_size wraps to an offset inside the file, and
\* whose fields pass every other check, was examined and rejected
C5_Witness ==
    /\ last.res.tag = "Err"
    /\ last.name_off.tag = "Ok"
    /\ last.data_off.tag = "Ok"
    /\ InFile(last.name_off.val, last.header.name_len)
    /\ ByteAt(last.name_off.val) = Slash
    /\ Lt(last.data_off.val, FileLength)
    /\ BrotliOk(Slice(mmap, last.data_off.val, U64(1)))
    /\ Overflows(last.data_off.val, last.header.data_size)
    /\ Le(WrappingAdd(last.data_off.val, last.header.data_size), FileLength)

\* ------------------------------------------------------------------------
\* C6
\* ------------------------------------------------------------------------

\* a is an address of the region: virtual_address <= a < virtual_address + size
InRegion(section, a) ==
    /\ Ge(a, section.virtual_address)
    /\ ~TrueLe(TrueAdd(section.virtual_address, section.size), a)

\* what C6 says the translation of a is
ExpectedTranslation(section, a) ==
    IF InRegion(section, a)
    THEN Ok(WrappingAdd(section.file_offset, WrappingSub(a, section.virtual_address)))
    ELSE Err("RVA is not in rdata section")

\* C6 as stated: for a PE session, each pointer parse_asset translates is mapped to
\* file_offset + (a - virtual_address) when virtual_address <= a < virtual_address +
\* size, and to a translation failure otherwise, which rejects the record without
\* ending the run.
C6_PeTranslation ==
    (binary_format = "Pe" /\ sections # <<>> /\ last.header # NoHeader) =>
        /\ last.name_off = ExpectedTranslation(sections[1], last.header.name_ptr)
        /\ last.name_off.tag = "Ok" =>
              last.data_off = ExpectedTranslation(sections[1], last.header.data_ptr)
        /\ (last.name_off.tag # "Ok" \/ last.data_off.tag # "Ok") =>
              (last.res.tag = "Err" /\ failure # "attempt to add with overflow")

\* ------------------------------------------------------------------------
\* C7
\* ------------------------------------------------------------------------

RECURSIVE AcceptedOf(_)
\* the offsets of a sequence at which parse_asset accepts, in the sequence's order
AcceptedOf(seq) ==
    IF seq = <<>> THEN <<>>
    ELSE (IF Accepts(Head(seq)) THEN <<Head(seq)>> ELSE <<>>) \o AcceptedOf(Tail(seq))

\* C7: the result lists the accepted offsets in strictly ascending order, one entry
\* for each examined offset that validates and no other (equal assets are kept), and
\* each entry is the name and data slices the file bytes determine at its offset.
C7_ResultInScanOrder ==
    /\ \A i \in 1..Len(hits) : \A j \in 1..Len(hits) : i < j => hits[i] < hits[j]
    /\ hits = AcceptedOf(examined)
    /\ Len(assets) = Len(hits)
    /\ \A i \in 1..Len(hits) :
         /\ assets[i].name = Slice(mmap, NameOffsetAt(hits[i]).val, NameLenAt(hits[i]))
         /\ assets[i].data = Slice(mmap, DataOffsetAt(hits[i]).val, DataSizeAt(hits[i]))

\* two descriptors of the same name and data gave two equal entries
C7_Witness ==
    /\ ScanReturned
    /\ Len(assets) = 2
    /\ assets[1] = assets[2]
    /\ hits[1] < hits[2]

\* ------------------------------------------------------------------------
\* C8
\* ------------------------------------------------------------------------

\* heuristic_search_assets has got past its expect(): it has a scan section
PastScanSection ==
    /\ binary_format \in {"Pe", "MachO"}
    /\ sections # <<>>
    /\ pc \notin {"new", "search"}

\* scan_start + scan_length without wraparound, of the current session
TrueScanEnd ==
    LET sec == ScanSection(binary_format, sections).val
    IN  TrueAdd(sec.file_offset, sec.size)

\* C8: when scan_start + scan_length, computed without wraparound, exceeds the file
\* length, the search ends in the assertion's panic with no offset examined and no
\* asset; and every offset the loop examines satisfies scan_start <= o and
\* o + 32 <= scan_start + scan_length <= file length.
C8_ScanBoundsAsserted ==
    PastScanSection =>
        /\ ~TrueLe(TrueScanEnd, FileLength) =>
              /\ pc = "panic"
              /\ failure = "end_offset is out of range"
              /\ examined = <<>>
              /\ assets = <<>>
        /\ \A i \in 1..Len(examined) :
              /\ scan_start <= examined[i]
              /\ examined[i] + ASSET_HEADER_SIZE <= end_offset
              /\ TrueScanEnd = U64(end_offset) \o <<0>>
              /\ U64(scan_start) = ScanSection(binary_format, sections).val.file_offset
              /\ end_offset <= Len(mmap)

\* the assertion stopped a session whose scan_start + scan_length passes 2^64
C8_Witness ==
    /\ PastScanSection
    /\ TrueScanEnd[U64Bytes + 1] # 0
    /\ pc = "panic"
    /\ failure = "end_offset is out of range"

\* ------------------------------------------------------------------------
\* C9
\* ------------------------------------------------------------------------

\* the advance the scan made from its i-th examined offset
AdvanceAfter(i) ==
    IF i < Len(examined) THEN examined[i + 1] - examined[i] ELSE offset - examined[i]

\* the advance from the i-th examined offset is known in this state
AdvanceKnown(i) == i < Len(examined) \/ (i = Len(examined) /\ pc # "panic")

\* C9 as stated: the scan advances by 8 from every offset at which validation
\* fails, also after an earlier acceptance, and by 32 from every offset at which it
\* succeeds.
C9_StepByOutcome ==
    \A i \in 1..Len(examined) :
        AdvanceKnown(i) =>
            AdvanceAfter(i) = IF InSeq(examined[i], hits)
                              THEN ASSET_HEADER_SIZE ELSE InitialScanStep

\* C9 amended: the scan advances by 8 from an offset at which validation fails
\* while no offset of the scan has been accepted, and by 32 from every offset it
\* examines from the first acceptance on, accepted or rejected.
C9_StepSticksAfterFirstAccept ==
    \A i \in 1..Len(examined) :
        AdvanceKnown(i) =>
            AdvanceAfter(i) = IF \E j \in 1..i : InSeq(examined[j], hits)
                              THEN ASSET_HEADER_SIZE ELSE InitialScanStep

\* a rejected offset behind an accepted one, left by 32, and a rejected offset
\* before it, left by 8
C9_Witness ==
    /\ Len(examined) >= 4
    /\ \E i \in 2..(Len(examined) - 2) :
         /\ ~InSeq(examined[i - 1], hits)
         /\ examined[i] = examined[i - 1] + InitialScanStep
         /\ InSeq(examined[i], hits)
         /\ ~InSeq(examined[i + 1], hits)
         /\ examined[i + 2] = examined[i + 1] + ASSET_HEADER_SIZE

\* ------------------------------------------------------------------------
\* C10
\* ------------------------------------------------------------------------

\* C10 as stated: every accepted Asset has a non-empty name that starts with '/',
\* so that main's asset.name[1..] is defined; a record with name_len = 0 is never
\* accepted.
C10_AcceptedNameNonEmpty ==
    /\ \A i \in 1..Len(assets) :
         Len(assets[i].name) > 0 /\ assets[i].name[1] = Slash
    /\ \A i \in 1..Len(hits) : NameLenAt(hits[i]) # U64(0)
    /\ failure # "byte index 1 is out of bounds"

====
